---- MODULE Spec2Model ----
(***************************************************************************)
(* The `shana run` command of go-shana/cmd                                 *)
(* (src/shana/internal/cmd/create.go).                                     *)
(*                                                                         *)
(* The source holds two versions of the run command:                       *)
(*   variant 1: lines 193-571, stages go through the runCommand closure,   *)
(*              the signal listener ranges over signalChan;                *)
(*   variant 2: lines 573-910, stages go through the run closure, the      *)
(*              signal listener selects on intChan and exitChan.           *)
(* Both are modelled; `variant` is fixed by Init.                          *)
(*                                                                         *)
(* The foreground goroutine (RunE), the listener goroutine, the external   *)
(* stage processes and the delivery of SIGINT are interleaved one atomic   *)
(* operation at a time.                                                    *)
(***************************************************************************)
EXTENDS Naturals, FiniteSets, Sequences, TLC

\* ---------------------------------------------------------------- bounds
MaxInterrupts == 3      \* SIGINTs delivered to the process in one behaviour
MaxPkgs == 1            \* sub-packages found in the project

\* ------------------------------------------------------ program constants
ChanCap == 2            \* make(chan os.Signal, 2)
NumTemplates == 3       \* go.mod, go.work, main.go

Stages == <<"tidy", "compile", "execute">>
StageSet == {"tidy", "compile", "execute"}
NextStage(s) == IF s = "tidy" THEN "compile" ELSE "execute"
ServerTypes == {"httpjson", "grpc"}
\* What os.Stat finds at projectRoot/shana.yaml.
ConfigStates == {"absent", "file", "dir"}

VARIABLES
    variant,        \* which version of runCmd runs: 1 or 2
    hasManifest,    \* `go env GOMOD` finds a readable go.mod
    npkgs,          \* len(pkgs) after listAllSubPackages
    serverType,     \* args[0]
    pc,             \* position of the foreground goroutine in RunE
    stage,          \* the stage RunE is at
    result,         \* per stage, what command.Run() returned: none/ok/fail
    err,            \* the error RunE returns (set by errors.Handle)
    files,          \* templates rendered into the workspace so far
    workspace,      \* cacheDir: "none", "exists", "removed"
    cmdPtr,         \* the atomic.Pointer[exec.Cmd] slot: "nil" or a stage
    interrupted,    \* the atomic.Bool
    chan,           \* notifications buffered in signalChan / intChan
    closed,         \* signalChan has been closed (variant 1)
    notifying,      \* signal.Notify is in force for the channel
    exitChan,       \* values buffered in exitChan (variant 2)
    lpc,            \* position of the listener goroutine
    lptr,           \* the listener's local ptr
    proc,           \* per stage, its OS process: none/running/exited
    status,         \* per stage, the exit status of its process
    started,        \* per stage, how many processes were started for it
    sigterm,        \* per stage, SIGTERMs sent to its running process
    queries,        \* `go env GOMOD` processes run by findGoModule
    crashed,        \* the program died of a panic in the listener goroutine
    nints,          \* SIGINTs delivered so far
    intDuring,      \* stages whose process was running when a SIGINT arrived
    exitFlag,       \* per stage, the interrupted flag when its process exited
    emptyHandled,   \* the listener handled a SIGINT and found cmdPtr nil
    second,         \* RunE has been called a second time
    prev,           \* what the first call of RunE left behind in the program
    fn              \* input and output of a function checked on its own

inputs == <<variant, hasManifest, npkgs, serverType>>
fgVars == <<pc, stage, result, err, files, workspace, cmdPtr, exitChan>>
sigVars == <<interrupted, chan, closed, notifying, lpc, lptr>>
procVars == <<proc, status, started, sigterm, queries>>
obsVars == <<crashed, nints, intDuring, exitFlag, emptyHandled>>
earlier == <<second, prev>>
pipelineVars == <<inputs, fgVars, sigVars, procVars, obsVars, earlier>>
vars == <<pipelineVars, fn>>

\* Nothing is left of an earlier call, no function is being checked.
NoPrev == [notifying |-> FALSE, chan |-> 0, closed |-> FALSE, exitChan |-> 0,
           interrupted |-> FALSE, lpc |-> "none", lptr |-> "nil",
           process |-> "none", workspace |-> "none", late |-> 0]
NoFn == [op |-> "none"]

PipelineInit ==
    /\ variant \in {1, 2}
    /\ hasManifest \in BOOLEAN
    /\ npkgs \in 0..MaxPkgs
    /\ serverType \in ServerTypes
    /\ pc = "findGoModule"
    /\ stage = "tidy"
    /\ result = [s \in StageSet |-> "none"]
    /\ err = "none"
    /\ files = 0
    /\ workspace = "none"
    /\ cmdPtr = "nil"
    /\ interrupted = FALSE
    /\ chan = 0
    /\ closed = FALSE
    /\ notifying = FALSE
    /\ exitChan = 0
    /\ lpc = "none"
    /\ lptr = "nil"
    /\ proc = [s \in StageSet |-> "none"]
    /\ status = [s \in StageSet |-> "none"]
    /\ started = [s \in StageSet |-> 0]
    /\ sigterm = [s \in StageSet |-> 0]
    /\ queries = 0
    /\ crashed = FALSE
    /\ nints = 0
    /\ intDuring = {}
    /\ exitFlag = [s \in StageSet |-> "none"]
    /\ emptyHandled = FALSE
    /\ second = FALSE
    /\ prev = NoPrev

Init == PipelineInit /\ fn = NoFn

\* The foreground goroutine runs while the program is alive.
Alive == ~crashed

\* errors.Throwf / errors.Check: panic, recovered by the deferred
\* errors.Handle(&err) after the other deferred calls have run.
\* Before MkdirTemp nothing else is deferred; afterwards variant 1 has
\* signal.Stop, close(signalChan), os.RemoveAll and variant 2 os.RemoveAll.
Deferred == IF variant = 1 THEN "signalStop" ELSE "removeAll"
Throw(e, to) == err' = e /\ pc' = to

\* ------------------------------------------------------------------------
\* RunE up to the first stage.

\* projectRoot, pkgName, ... := findGoModule()
FindGoModule ==
    /\ Alive /\ pc = "findGoModule"
    /\ queries' = queries + 1
    /\ IF hasManifest
         THEN pc' = "listAllSubPackages" /\ err' = err
         ELSE Throw("no go.mod", "returned")
    /\ UNCHANGED <<inputs, earlier, fn, stage, result, files, workspace, cmdPtr, exitChan,
                   sigVars, proc, status, started, sigterm, obsVars>>

\* Mutant: the empty package list is not rejected.
ListAllSubPackages_NoCheck ==
    /\ Alive /\ pc = "listAllSubPackages"
    /\ pc' = "listRunTemplates" /\ err' = err
    /\ UNCHANGED <<inputs, earlier, fn, stage, result, files, workspace, cmdPtr, exitChan,
                   sigVars, procVars, obsVars>>

\* pkgs := listAllSubPackages(projectRoot); if len(pkgs) == 0 { Throwf }
ListAllSubPackages ==
    /\ Alive /\ pc = "listAllSubPackages"
    /\ IF npkgs = 0
         THEN Throw("no package", "returned")
         ELSE pc' = "listRunTemplates" /\ err' = err
    /\ UNCHANGED <<inputs, earlier, fn, stage, result, files, workspace, cmdPtr, exitChan,
                   sigVars, procVars, obsVars>>

\* Mutant: the switch has no default branch, any server-proto is accepted.
ListRunTemplates_AnyType ==
    /\ Alive /\ pc = "listRunTemplates"
    /\ pc' = "mkdirTemp" /\ err' = err
    /\ UNCHANGED <<inputs, earlier, fn, stage, result, files, workspace, cmdPtr, exitChan,
                   sigVars, procVars, obsVars>>

\* tmpls := listRunTemplates(serverType)
ListRunTemplates ==
    /\ Alive /\ pc = "listRunTemplates"
    /\ IF serverType = "httpjson"
         THEN pc' = "mkdirTemp" /\ err' = err
         ELSE Throw("unsupported server-proto", "returned")
    /\ UNCHANGED <<inputs, earlier, fn, stage, result, files, workspace, cmdPtr, exitChan,
                   sigVars, procVars, obsVars>>

\* cacheDir := errors.Check1(os.MkdirTemp(...)); defer os.RemoveAll(cacheDir)
MkdirTemp ==
    /\ Alive /\ pc = "mkdirTemp"
    /\ \/ /\ workspace' = "exists"
          /\ pc' = "listen"
          /\ err' = err
       \/ /\ Throw("mkdir", "returned")
          /\ workspace' = workspace
    /\ UNCHANGED <<inputs, earlier, fn, stage, result, files, cmdPtr, exitChan,
                   sigVars, procVars, obsVars>>

\* variant 1: signalChan := make(chan os.Signal, 2); signal.Notify(...);
\* defer close; defer signal.Stop; go func() { for range signalChan ... }()
Listen1 ==
    /\ Alive /\ pc = "listen" /\ variant = 1
    /\ notifying' = TRUE
    /\ lpc' = "recv"
    /\ pc' = "linkConfig"
    /\ UNCHANGED <<inputs, earlier, fn, stage, result, err, files, workspace, cmdPtr,
                   exitChan, interrupted, chan, closed, lptr, procVars, obsVars>>

\* variant 2: intChan, exitChan; signal.Notify(intChan, os.Interrupt);
\* go func() { for { select ... } }()
Listen2 ==
    /\ Alive /\ pc = "listen" /\ variant = 2
    /\ notifying' = TRUE
    /\ lpc' = "recv"
    /\ pc' = "linkConfig"
    /\ UNCHANGED <<inputs, earlier, fn, stage, result, err, files, workspace, cmdPtr,
                   exitChan, interrupted, chan, closed, lptr, procVars, obsVars>>

\* variant 1: if isFileExists(configFile) { errors.Check(os.Link(...)) }
\* isFileExists is false for a directory.
LinkConfig1 ==
    /\ Alive /\ pc = "linkConfig" /\ variant = 1
    /\ \E config \in ConfigStates :
         IF config = "file"
           THEN \/ pc' = "createFile" /\ err' = err
                \/ Throw("link", Deferred)
           ELSE pc' = "createFile" /\ err' = err
    /\ UNCHANGED <<inputs, earlier, fn, stage, result, files, workspace, cmdPtr, exitChan,
                   sigVars, procVars, obsVars>>

\* variant 2: os.Stat; a directory is "Invalid config file"; else os.Link.
LinkConfig2 ==
    /\ Alive /\ pc = "linkConfig" /\ variant = 2
    /\ \E config \in ConfigStates :
         CASE config = "absent" -> pc' = "createFile" /\ err' = err
           [] config = "dir" -> Throw("invalid config file", Deferred)
           [] config = "file" -> \/ pc' = "createFile" /\ err' = err
                                 \/ Throw("link", Deferred)
    /\ UNCHANGED <<inputs, earlier, fn, stage, result, files, workspace, cmdPtr, exitChan,
                   sigVars, procVars, obsVars>>

\* Mutant: createFile drops the errors of os.Create and tmpl.Execute and
\* the loop goes on to the stages.
CreateFile_IgnoreError ==
    /\ Alive /\ pc = "createFile"
    /\ IF files < NumTemplates
         THEN \/ files' = files + 1 /\ pc' = pc /\ err' = err
              \/ files' = files /\ pc' = "check" /\ err' = err
         ELSE pc' = "check" /\ files' = files /\ err' = err
    /\ UNCHANGED <<inputs, earlier, fn, stage, result, workspace, cmdPtr, exitChan,
                   sigVars, procVars, obsVars>>

\* for _, tmpl := range tmpls { createFile(...) }: os.Create and
\* tmpl.Execute are checked, either may fail.
CreateFile ==
    /\ Alive /\ pc = "createFile"
    /\ IF files < NumTemplates
         THEN \/ files' = files + 1 /\ pc' = pc /\ err' = err
              \/ Throw("generation", Deferred) /\ files' = files
         ELSE pc' = "check" /\ files' = files /\ err' = err
    /\ UNCHANGED <<inputs, earlier, fn, stage, result, workspace, cmdPtr, exitChan,
                   sigVars, procVars, obsVars>>

\* ------------------------------------------------------------------------
\* Variant 1: the stages go through runCommand (lines 277-291, 332-347).

\* Mutant: runCommand does not look at the interrupted flag.
RunCommandLoad_Ignore ==
    /\ Alive /\ pc = "check" /\ variant = 1
    /\ pc' = "store"
    /\ UNCHANGED <<inputs, earlier, fn, stage, result, err, files, workspace, cmdPtr,
                   exitChan, sigVars, procVars, obsVars>>

\* if interrupted.Load() { return }  -- runCommand returns a nil error
RunCommandLoad ==
    /\ Alive /\ pc = "check" /\ variant = 1
    /\ pc' = IF interrupted THEN "after" ELSE "store"
    /\ UNCHANGED <<inputs, earlier, fn, stage, result, err, files, workspace, cmdPtr,
                   exitChan, sigVars, procVars, obsVars>>

\* command := exec.Command(name, args...); cmdPtr.Store(command)
RunCommandStore ==
    /\ Alive /\ pc = "store" /\ variant = 1
    /\ cmdPtr' = stage
    /\ pc' = "run"
    /\ UNCHANGED <<inputs, earlier, fn, stage, result, err, files, workspace, exitChan,
                   sigVars, procVars, obsVars>>

\* command.Run(), first half: Start sets command.Process, or fails and
\* leaves it nil, and then Run returns the error.
RunCommandStart ==
    /\ Alive /\ pc = "run" /\ variant = 1
    /\ \/ /\ proc' = [proc EXCEPT ![stage] = "running"]
          /\ started' = [started EXCEPT ![stage] = @ + 1]
          /\ pc' = "wait"
          /\ result' = result
       \/ /\ result' = [result EXCEPT ![stage] = "fail"]
          /\ pc' = "clear"
          /\ UNCHANGED <<proc, started>>
    /\ UNCHANGED <<inputs, earlier, fn, stage, err, files, workspace, cmdPtr, exitChan,
                   sigVars, status, sigterm, queries, obsVars>>

\* Mutant: the process is started but not waited for (Start for Run).
RunCommandWait_NoWait ==
    /\ Alive /\ pc = "wait" /\ variant = 1
    /\ result' = [result EXCEPT ![stage] =
                    IF proc[stage] = "exited" THEN status[stage] ELSE "ok"]
    /\ pc' = "clear"
    /\ UNCHANGED <<inputs, earlier, fn, stage, err, files, workspace, cmdPtr, exitChan,
                   sigVars, procVars, obsVars>>

\* command.Run(), second half: Wait returns once the process has exited.
RunCommandWait ==
    /\ Alive /\ pc = "wait" /\ variant = 1
    /\ proc[stage] = "exited"
    /\ result' = [result EXCEPT ![stage] = status[stage]]
    /\ pc' = "clear"
    /\ UNCHANGED <<inputs, earlier, fn, stage, err, files, workspace, cmdPtr, exitChan,
                   sigVars, procVars, obsVars>>

\* Mutant: runCommand re-arms the flag when its stage is over.
RunCommandClear_ResetFlag ==
    /\ Alive /\ pc = "clear" /\ variant = 1
    /\ cmdPtr' = "nil"
    /\ interrupted' = FALSE
    /\ pc' = "after"
    /\ UNCHANGED <<inputs, earlier, fn, stage, result, err, files, workspace, exitChan,
                   chan, closed, notifying, lpc, lptr, procVars, obsVars>>

\* cmdPtr.Store(nil); fmt.Fprintln(os.Stderr, msg); return
RunCommandClear ==
    /\ Alive /\ pc = "clear" /\ variant = 1
    /\ cmdPtr' = "nil"
    /\ pc' = "after"
    /\ UNCHANGED <<inputs, earlier, fn, stage, result, err, files, workspace, exitChan,
                   sigVars, procVars, obsVars>>

\* Mutant: the error of every stage is ignored, as that of execute is.
AfterStage1_IgnoreErr ==
    /\ Alive /\ pc = "after" /\ variant = 1
    /\ IF stage = "execute"
         THEN pc' = Deferred /\ err' = err /\ stage' = stage
         ELSE pc' = "check" /\ stage' = NextStage(stage) /\ err' = err
    /\ UNCHANGED <<inputs, earlier, fn, result, files, workspace, cmdPtr, exitChan,
                   sigVars, procVars, obsVars>>

\* errors.Check(runCommand(...)) for tidy and compile; the error of the
\* execute stage is ignored and RunE returns.
AfterStage1 ==
    /\ Alive /\ pc = "after" /\ variant = 1
    /\ IF stage = "execute"
         THEN pc' = Deferred /\ err' = err /\ stage' = stage
         ELSE IF result[stage] = "fail"
                THEN Throw("process", Deferred) /\ stage' = stage
                ELSE pc' = "check" /\ stage' = NextStage(stage) /\ err' = err
    /\ UNCHANGED <<inputs, earlier, fn, result, files, workspace, cmdPtr, exitChan,
                   sigVars, procVars, obsVars>>

\* ------------------------------------------------------------------------
\* Variant 2: the stages go through run (lines 647-652, 705-745).

\* Mutant: the checks before the stages are missing.
CheckInterrupted2_Ignore ==
    /\ Alive /\ pc = "check" /\ variant = 2
    /\ pc' = "store"
    /\ UNCHANGED <<inputs, earlier, fn, stage, result, err, files, workspace, cmdPtr,
                   exitChan, sigVars, procVars, obsVars>>

\* if interrupted.Load() { return }  -- RunE itself returns
CheckInterrupted2 ==
    /\ Alive /\ pc = "check" /\ variant = 2
    /\ pc' = IF interrupted THEN Deferred ELSE "store"
    /\ UNCHANGED <<inputs, earlier, fn, stage, result, err, files, workspace, cmdPtr,
                   exitChan, sigVars, procVars, obsVars>>

\* command := exec.Command(...); run: runningCommand.Store(c)
RunStore ==
    /\ Alive /\ pc = "store" /\ variant = 2
    /\ cmdPtr' = stage
    /\ pc' = "run"
    /\ UNCHANGED <<inputs, earlier, fn, stage, result, err, files, workspace, exitChan,
                   sigVars, procVars, obsVars>>

\* run: err := c.Run(), first half (Start)
RunStart ==
    /\ Alive /\ pc = "run" /\ variant = 2
    /\ \/ /\ proc' = [proc EXCEPT ![stage] = "running"]
          /\ started' = [started EXCEPT ![stage] = @ + 1]
          /\ pc' = "wait"
          /\ result' = result
       \/ /\ result' = [result EXCEPT ![stage] = "fail"]
          /\ pc' = "clear"
          /\ UNCHANGED <<proc, started>>
    /\ UNCHANGED <<inputs, earlier, fn, stage, err, files, workspace, cmdPtr, exitChan,
                   sigVars, status, sigterm, queries, obsVars>>

\* run: err := c.Run(), second half (Wait)
RunWait ==
    /\ Alive /\ pc = "wait" /\ variant = 2
    /\ proc[stage] = "exited"
    /\ result' = [result EXCEPT ![stage] = status[stage]]
    /\ pc' = "clear"
    /\ UNCHANGED <<inputs, earlier, fn, stage, err, files, workspace, cmdPtr, exitChan,
                   sigVars, procVars, obsVars>>

\* Mutant: run returns without clearing the slot.
RunClear_Keep ==
    /\ Alive /\ pc = "clear" /\ variant = 2
    /\ cmdPtr' = cmdPtr
    /\ pc' = "after"
    /\ UNCHANGED <<inputs, earlier, fn, stage, result, err, files, workspace, exitChan,
                   sigVars, procVars, obsVars>>

\* run: runningCommand.Store(nil); return err
RunClear ==
    /\ Alive /\ pc = "clear" /\ variant = 2
    /\ cmdPtr' = "nil"
    /\ pc' = "after"
    /\ UNCHANGED <<inputs, earlier, fn, stage, result, err, files, workspace, exitChan,
                   sigVars, procVars, obsVars>>

\* errors.If(run(command)).Throw(...) for every stage, execute included.
AfterStage2 ==
    /\ Alive /\ pc = "after" /\ variant = 2
    /\ IF result[stage] = "fail"
         THEN Throw("process", Deferred) /\ stage' = stage
         ELSE /\ err' = err
              /\ IF stage = "execute"
                   THEN pc' = "exitCheck" /\ stage' = stage
                   ELSE pc' = "check" /\ stage' = NextStage(stage)
    /\ UNCHANGED <<inputs, earlier, fn, result, files, workspace, cmdPtr, exitChan,
                   sigVars, procVars, obsVars>>

\* if interrupted.Load() { return }; exitChan <- true; return
ExitCheck2 ==
    /\ Alive /\ pc = "exitCheck" /\ variant = 2
    /\ exitChan' = IF interrupted THEN exitChan ELSE exitChan + 1
    /\ pc' = Deferred
    /\ UNCHANGED <<inputs, earlier, fn, stage, result, err, files, workspace, cmdPtr,
                   sigVars, procVars, obsVars>>

\* ------------------------------------------------------------------------
\* Deferred calls, last registered first.

\* defer signal.Stop(signalChan)   (variant 1)
SignalStop ==
    /\ Alive /\ pc = "signalStop"
    /\ notifying' = FALSE
    /\ pc' = "closeChan"
    /\ UNCHANGED <<inputs, earlier, fn, stage, result, err, files, workspace, cmdPtr,
                   exitChan, interrupted, chan, closed, lpc, lptr,
                   procVars, obsVars>>

\* defer close(signalChan)         (variant 1)
CloseChan ==
    /\ Alive /\ pc = "closeChan"
    /\ closed' = TRUE
    /\ pc' = "removeAll"
    /\ UNCHANGED <<inputs, earlier, fn, stage, result, err, files, workspace, cmdPtr,
                   exitChan, interrupted, chan, notifying, lpc, lptr,
                   procVars, obsVars>>

\* defer os.RemoveAll(cacheDir), then errors.Handle and RunE has returned.
RemoveAll ==
    /\ Alive /\ pc = "removeAll"
    /\ workspace' = "removed"
    /\ pc' = "returned"
    /\ UNCHANGED <<inputs, earlier, fn, stage, result, err, files, cmdPtr, exitChan,
                   sigVars, procVars, obsVars>>

\* ------------------------------------------------------------------------
\* The listener goroutine.

\* ptr.Process.Signal(syscall.SIGTERM) on the command the listener loaded:
\* command.Process is nil until Start has set it, and calling Signal on a
\* nil *os.Process panics in a goroutine nobody recovers, which ends the
\* program; a process that has exited is not signalled.
SignalProcess ==
    /\ lpc' = "recv"
    /\ lptr' = "nil"
    /\ CASE proc[lptr] = "none" ->
              crashed' = TRUE /\ sigterm' = sigterm
         [] proc[lptr] = "running" ->
              sigterm' = [sigterm EXCEPT ![lptr] = @ + 1] /\ crashed' = crashed
         [] proc[lptr] = "exited" ->
              sigterm' = sigterm /\ crashed' = crashed

\* variant 1: for range signalChan -- a value is received
Listener1Recv ==
    /\ Alive /\ variant = 1 /\ lpc = "recv"
    /\ chan > 0
    /\ chan' = chan - 1
    /\ lpc' = "check"
    /\ UNCHANGED <<inputs, earlier, fn, fgVars, interrupted, closed, notifying, lptr,
                   procVars, obsVars>>

\* variant 1: for range signalChan -- the channel is closed and drained
Listener1Closed ==
    /\ Alive /\ variant = 1 /\ lpc = "recv"
    /\ chan = 0 /\ closed
    /\ lpc' = "done"
    /\ UNCHANGED <<inputs, earlier, fn, fgVars, interrupted, chan, closed, notifying, lptr,
                   procVars, obsVars>>

\* variant 1: if interrupted.Load() { return }
Listener1Load ==
    /\ Alive /\ variant = 1 /\ lpc = "check"
    /\ lpc' = IF interrupted THEN "done" ELSE "store"
    /\ UNCHANGED <<inputs, earlier, fn, fgVars, interrupted, chan, closed, notifying, lptr,
                   procVars, obsVars>>

\* variant 1: interrupted.Store(true)
Listener1Store ==
    /\ Alive /\ variant = 1 /\ lpc = "store"
    /\ interrupted' = TRUE
    /\ lpc' = "ptr"
    /\ UNCHANGED <<inputs, earlier, fn, fgVars, chan, closed, notifying, lptr,
                   procVars, obsVars>>

\* variant 1: if ptr := cmdPtr.Load(); ptr != nil
Listener1Ptr ==
    /\ Alive /\ variant = 1 /\ lpc = "ptr"
    /\ IF cmdPtr = "nil"
         THEN lpc' = "recv" /\ lptr' = "nil" /\ emptyHandled' = TRUE
         ELSE lpc' = "signal" /\ lptr' = cmdPtr /\ emptyHandled' = emptyHandled
    /\ UNCHANGED <<inputs, earlier, fn, fgVars, interrupted, chan, closed, notifying,
                   procVars, crashed, nints, intDuring, exitFlag>>

\* variant 1: ptr.Process.Signal(syscall.SIGTERM); "Caught SIGINT"
Listener1Signal ==
    /\ Alive /\ variant = 1 /\ lpc = "signal"
    /\ SignalProcess
    /\ UNCHANGED <<inputs, earlier, fn, fgVars, interrupted, chan, closed, notifying,
                   proc, status, started, queries,
                   nints, intDuring, exitFlag, emptyHandled>>

\* variant 2: case <-intChan: interrupted.Store(true)
Listener2Recv ==
    /\ Alive /\ variant = 2 /\ lpc = "recv"
    /\ chan > 0
    /\ chan' = chan - 1
    /\ interrupted' = TRUE
    /\ lpc' = "ptr"
    /\ UNCHANGED <<inputs, earlier, fn, fgVars, closed, notifying, lptr, procVars, obsVars>>

\* variant 2: if ptr := runningCommand.Load(); ptr != nil
Listener2Ptr ==
    /\ Alive /\ variant = 2 /\ lpc = "ptr"
    /\ IF cmdPtr = "nil"
         THEN lpc' = "recv" /\ lptr' = "nil" /\ emptyHandled' = TRUE
         ELSE lpc' = "signal" /\ lptr' = cmdPtr /\ emptyHandled' = emptyHandled
    /\ UNCHANGED <<inputs, earlier, fn, fgVars, interrupted, chan, closed, notifying,
                   procVars, crashed, nints, intDuring, exitFlag>>

\* variant 2: ptr.Process.Signal(syscall.SIGTERM); "Caught SIGINT"
Listener2Signal ==
    /\ Alive /\ variant = 2 /\ lpc = "signal"
    /\ SignalProcess
    /\ UNCHANGED <<inputs, earlier, fn, fgVars, interrupted, chan, closed, notifying,
                   proc, status, started, queries,
                   nints, intDuring, exitFlag, emptyHandled>>

\* variant 2: case <-exitChan: signal.Stop(intChan)
Listener2Exit ==
    /\ Alive /\ variant = 2 /\ lpc = "recv"
    /\ exitChan > 0
    /\ exitChan' = exitChan - 1
    /\ notifying' = FALSE
    /\ UNCHANGED <<inputs, earlier, fn, pc, stage, result, err, files, workspace, cmdPtr,
                   interrupted, chan, closed, lpc, lptr, procVars, obsVars>>

\* ------------------------------------------------------------------------
\* The environment.

\* A SIGINT reaches the program while signal.Notify is in force: the
\* runtime sends it to every channel registered for it, that of an earlier
\* call included if it was never stopped, without blocking, and drops it
\* when the buffer is full.
Interrupt ==
    /\ Alive /\ (notifying \/ prev.notifying)
    /\ nints < MaxInterrupts
    /\ nints' = nints + 1
    /\ chan' = IF notifying /\ chan < ChanCap THEN chan + 1 ELSE chan
    /\ prev' = IF prev.notifying
                 THEN [prev EXCEPT !.chan = IF @ < ChanCap THEN @ + 1 ELSE @,
                                   !.late = @ + 1]
                 ELSE prev
    /\ intDuring' = intDuring \cup {s \in StageSet : proc[s] = "running"}
    /\ UNCHANGED <<inputs, second, fn, fgVars, interrupted, closed, notifying,
                   lpc, lptr, procVars, crashed, exitFlag, emptyHandled>>

\* The process of a stage exits, with or without an error, whether or not
\* it was sent SIGTERM.
ProcExit(s) ==
    /\ Alive /\ proc[s] = "running"
    /\ proc' = [proc EXCEPT ![s] = "exited"]
    /\ \E st \in {"ok", "fail"} : status' = [status EXCEPT ![s] = st]
    /\ exitFlag' = [exitFlag EXCEPT ![s] = IF interrupted THEN "set" ELSE "clear"]
    /\ UNCHANGED <<inputs, earlier, fn, fgVars, sigVars, started, sigterm, queries,
                   crashed, nints, intDuring, emptyHandled>>

Foreground ==
    \/ FindGoModule
    \/ ListAllSubPackages
    \/ ListRunTemplates
    \/ MkdirTemp
    \/ Listen1
    \/ Listen2
    \/ LinkConfig1
    \/ LinkConfig2
    \/ CreateFile
    \/ RunCommandLoad
    \/ RunCommandStore
    \/ RunCommandStart
    \/ RunCommandWait
    \/ RunCommandClear
    \/ AfterStage1
    \/ CheckInterrupted2
    \/ RunStore
    \/ RunStart
    \/ RunWait
    \/ RunClear
    \/ AfterStage2
    \/ ExitCheck2
    \/ SignalStop
    \/ CloseChan
    \/ RemoveAll

Listener ==
    \/ Listener1Recv
    \/ Listener1Closed
    \/ Listener1Load
    \/ Listener1Store
    \/ Listener1Ptr
    \/ Listener1Signal
    \/ Listener2Recv
    \/ Listener2Ptr
    \/ Listener2Signal
    \/ Listener2Exit

Environment ==
    \/ Interrupt
    \/ \E s \in StageSet : ProcExit(s)

\* ------------------------------------------------------------------------
\* RunE called a second time in the same program.

\* The second call starts from new locals (cacheDir, the channels, cmdPtr,
\* interrupted, a new listener); the channel, the registration and the
\* listener goroutine of the first call stay as the first call left them.
RunAgain ==
    /\ Alive /\ pc = "returned" /\ ~second
    /\ second' = TRUE
    /\ prev' = [notifying |-> notifying, chan |-> chan, closed |-> closed,
                exitChan |-> exitChan, interrupted |-> interrupted,
                lpc |-> lpc, lptr |-> lptr,
                process |-> IF lptr = "nil" THEN "none" ELSE proc[lptr],
                workspace |-> workspace, late |-> 0]
    /\ pc' = "findGoModule"
    /\ stage' = "tidy"
    /\ result' = [s \in StageSet |-> "none"]
    /\ err' = "none"
    /\ files' = 0
    /\ workspace' = "none"
    /\ cmdPtr' = "nil"
    /\ exitChan' = 0
    /\ interrupted' = FALSE
    /\ chan' = 0
    /\ closed' = FALSE
    /\ notifying' = FALSE
    /\ lpc' = "none"
    /\ lptr' = "nil"
    /\ proc' = [s \in StageSet |-> "none"]
    /\ status' = [s \in StageSet |-> "none"]
    /\ started' = [s \in StageSet |-> 0]
    /\ sigterm' = [s \in StageSet |-> 0]
    /\ queries' = 0
    /\ intDuring' = {}
    /\ exitFlag' = [s \in StageSet |-> "none"]
    /\ emptyHandled' = FALSE
    /\ UNCHANGED <<inputs, fn, crashed, nints>>

\* The steps of the listener goroutine of the first call, on the channel,
\* flag and slot of the first call (the slot is nil since run/runCommand
\* cleared it before the first call returned).
PrevUnchanged == UNCHANGED <<inputs, fn, second, fgVars, sigVars, procVars,
                             nints, intDuring, exitFlag, emptyHandled>>

\* variant 1: for range signalChan -- a value is received
PrevListener1Recv ==
    /\ Alive /\ second /\ variant = 1 /\ prev.lpc = "recv"
    /\ prev.chan > 0
    /\ prev' = [prev EXCEPT !.chan = @ - 1, !.lpc = "check"]
    /\ crashed' = crashed
    /\ PrevUnchanged

\* variant 1: for range signalChan -- the channel is closed and drained
PrevListener1Closed ==
    /\ Alive /\ second /\ variant = 1 /\ prev.lpc = "recv"
    /\ prev.chan = 0 /\ prev.closed
    /\ prev' = [prev EXCEPT !.lpc = "done"]
    /\ crashed' = crashed
    /\ PrevUnchanged

\* variant 1: if interrupted.Load() { return }
PrevListener1Load ==
    /\ Alive /\ second /\ variant = 1 /\ prev.lpc = "check"
    /\ prev' = [prev EXCEPT !.lpc = IF prev.interrupted THEN "done" ELSE "store"]
    /\ crashed' = crashed
    /\ PrevUnchanged

\* variant 1: interrupted.Store(true)
PrevListener1Store ==
    /\ Alive /\ second /\ variant = 1 /\ prev.lpc = "store"
    /\ prev' = [prev EXCEPT !.interrupted = TRUE, !.lpc = "ptr"]
    /\ crashed' = crashed
    /\ PrevUnchanged

\* variant 2: case <-intChan: interrupted.Store(true)
PrevListener2Recv ==
    /\ Alive /\ second /\ variant = 2 /\ prev.lpc = "recv"
    /\ prev.chan > 0
    /\ prev' = [prev EXCEPT !.chan = @ - 1, !.interrupted = TRUE, !.lpc = "ptr"]
    /\ crashed' = crashed
    /\ PrevUnchanged

\* if ptr := cmdPtr.Load(); ptr != nil -- nil, "Caught SIGINT"
PrevListenerPtr ==
    /\ Alive /\ second /\ prev.lpc = "ptr"
    /\ prev' = [prev EXCEPT !.lpc = "recv"]
    /\ crashed' = crashed
    /\ PrevUnchanged

\* ptr.Process.Signal(syscall.SIGTERM) on a command loaded before the first
\* call returned: its process has exited, or was never started.
PrevListenerSignal ==
    /\ Alive /\ second /\ prev.lpc = "signal"
    /\ prev' = [prev EXCEPT !.lpc = "recv", !.lptr = "nil", !.process = "none"]
    /\ crashed' = (prev.process = "none")
    /\ PrevUnchanged

\* variant 2: case <-exitChan: signal.Stop(intChan)
PrevListener2Exit ==
    /\ Alive /\ second /\ variant = 2 /\ prev.lpc = "recv"
    /\ prev.exitChan > 0
    /\ prev' = [prev EXCEPT !.exitChan = @ - 1, !.notifying = FALSE]
    /\ crashed' = crashed
    /\ PrevUnchanged

PrevListener ==
    \/ PrevListener1Recv
    \/ PrevListener1Closed
    \/ PrevListener1Load
    \/ PrevListener1Store
    \/ PrevListener2Recv
    \/ PrevListenerPtr
    \/ PrevListenerSignal
    \/ PrevListener2Exit

Next ==
    \/ Foreground
    \/ Listener
    \/ Environment

Spec == Init /\ [][Next]_vars

\* The Go scheduler runs every runnable goroutine eventually; nothing makes
\* an external process exit or a SIGINT arrive.
FairSpec == Spec /\ WF_vars(Foreground) /\ WF_vars(Listener)

NextTwice ==
    \/ Next
    \/ RunAgain
    \/ PrevListener

\* RunE called twice in succession.
TwoRuns == Init /\ [][NextTwice]_vars

\* ========================================================================
\* Claims.

Returned == pc = "returned"
Running(s) == proc[s] = "running"
NoStageStarted == \A s \in StageSet : started[s] = 0
\* The stage s and the stages after it.
From(s) == CASE s = "tidy" -> StageSet
             [] s = "compile" -> {"compile", "execute"}
             [] s = "execute" -> {"execute"}

\* C1 (as stated): a SIGINT delivered to the program while the compile
\* process is running keeps the execute process from ever being started.
C1_DeliveredDuringCompile ==
    "compile" \in intDuring => started["execute"] = 0

\* C1 (amended): if the listener has set the interrupted flag by the time
\* the compile process exits, the execute process is never started, whether
\* compile exits with an error or not.
C1_HandledDuringCompile ==
    exitFlag["compile"] = "set" => started["execute"] = 0

C1_Witness ==
    /\ Returned
    /\ "compile" \in intDuring
    /\ exitFlag["compile"] = "set"
    /\ status["compile"] = "ok"
    /\ started["execute"] = 0

\* C2: once the workspace directory has been created it no longer exists
\* when the run ends, by returning or by the program dying.
C2_WorkspaceRemoved ==
    (Returned \/ crashed) => workspace # "exists"

\* C3 (as stated): with an unsupported server-proto the run fails with the
\* unsupported-protocol error, no workspace exists and no external process
\* at all has been run, whatever the project looks like.
C3_NoProcessAtAll ==
    (serverType # "httpjson" /\ Returned) =>
        /\ err = "unsupported server-proto"
        /\ workspace = "none"
        /\ queries = 0
        /\ NoStageStarted

\* C3 (amended): with an unsupported server-proto no workspace is ever
\* created and no stage process is ever started, and the run fails; the
\* failure is the unsupported-protocol error when go.mod was found and the
\* project has a package, and `go env GOMOD` has been run by then.
C3_NoWorkspaceNoStage ==
    serverType # "httpjson" =>
        /\ workspace = "none"
        /\ NoStageStarted
        /\ Returned => /\ err # "none"
                       /\ queries = 1
                       /\ (hasManifest /\ npkgs > 0) =>
                              err = "unsupported server-proto"

C3_Witness ==
    /\ serverType # "httpjson"
    /\ Returned
    /\ err = "unsupported server-proto"
    /\ workspace = "none"

\* C4: stage processes are started in the order tidy, compile, execute,
\* each after the previous one has exited, at most one runs at a time and
\* none is started twice.
C4_StageOrder ==
    /\ \A s \in StageSet : started[s] <= 1
    /\ Cardinality({s \in StageSet : Running(s)}) <= 1
    /\ started["compile"] > 0 => proc["tidy"] = "exited"
    /\ started["execute"] > 0 => proc["compile"] = "exited"
    /\ \A s \in StageSet : proc[s] # "none" => started[s] = 1

C4_Witness ==
    /\ Running("execute")
    /\ \A s \in StageSet : started[s] = 1

\* C5: if the interrupted flag is set when a stage is about to begin,
\* neither that stage nor a later one ever starts a process, and the run
\* goes on to its cleanup and returns.
C5_SkipWhenInterrupted ==
    /\ \A s \in StageSet :
         [](pc = "check" /\ stage = s /\ interrupted
              => [](\A u \in From(s) : started[u] = 0))
    /\ (pc = "check" /\ interrupted) ~> (Returned /\ workspace = "removed")

C5_Witness ==
    /\ Returned
    /\ interrupted
    /\ result["tidy"] = "ok"
    /\ exitFlag["tidy"] = "set"
    /\ started["compile"] = 0
    /\ err = "none"

\* C6: after the listener has handled a SIGINT with the slot empty, no
\* stage process runs without having been sent a termination request.
C6_EmptySlotThenSkipped ==
    emptyHandled => \A s \in StageSet : Running(s) => sigterm[s] > 0

\* C7: over all the SIGINTs of a run at most one termination request is
\* sent: only the first one handled has an effect.
C7_OneTermination ==
    sigterm["tidy"] + sigterm["compile"] + sigterm["execute"] <= 1

\* C8: a failure of the execute process while the interrupted flag is set
\* is suppressed, the run returns no error.
C8_SuppressedWhenInterrupted ==
    (Returned /\ status["execute"] = "fail" /\ exitFlag["execute"] = "set")
        => err = "none"

\* C9: a failure of the execute process while the interrupted flag is not
\* set is reported, the run returns a process error.
C9_ReportedWhenNotInterrupted ==
    (Returned /\ status["execute"] = "fail" /\ exitFlag["execute"] = "clear")
        => err = "process"

\* C10: when tidy fails neither compile nor execute is ever started, when
\* compile fails execute is never started, and the run returns the process
\* error with the workspace removed.
C10_FailureAborts ==
    /\ [](result["tidy"] = "fail" =>
            started["compile"] = 0 /\ started["execute"] = 0)
    /\ [](result["compile"] = "fail" => started["execute"] = 0)
    /\ []((Returned /\ (result["tidy"] = "fail" \/ result["compile"] = "fail"))
            => err = "process" /\ workspace = "removed")
    /\ (status["tidy"] = "fail" \/ status["compile"] = "fail")
         ~> (Returned /\ err = "process")

C10_Witness ==
    /\ Returned
    /\ status["tidy"] = "ok"
    /\ status["compile"] = "fail"
    /\ err = "process"
    /\ workspace = "removed"

\* C11: only the foreground writes the slot.  It holds a handle only between
\* a stage's publish and its clear, the handle is that of the stage RunE is
\* at, no process other than that stage's is running, the slot is empty
\* once RunE has returned, and no step of the listener changes it.
C11_SlotSingleWriter ==
    /\ [](cmdPtr # "nil" => cmdPtr = stage /\ pc \in {"run", "wait", "clear"})
    /\ [](\A s \in StageSet : Running(s) => cmdPtr = s)
    /\ [](Returned => cmdPtr = "nil")
    /\ [][Listener => cmdPtr' = cmdPtr]_vars
    /\ [][cmdPtr' # cmdPtr => pc \in {"store", "clear"}]_vars

C11_Witness ==
    /\ Returned
    /\ \A s \in StageSet : started[s] = 1
    /\ cmdPtr = "nil"
    /\ sigterm["execute"] = 1

\* The positions of RunE up to the end of the createFile loop.
SynthesisPcs == {"findGoModule", "listAllSubPackages", "listRunTemplates",
                 "mkdirTemp", "listen", "linkConfig", "createFile"}
SynthesisErrors == {"mkdir", "link", "invalid config file", "generation"}

\* C13: when a stage process has been started the workspace has been
\* created, the configuration file has been dealt with and every template
\* has been rendered; when a synthesis step has failed no stage process is
\* ever started.
C13_SynthesisBeforeStages ==
    /\ ~NoStageStarted =>
          /\ workspace # "none"
          /\ files = NumTemplates
          /\ pc \notin SynthesisPcs
    /\ err \in SynthesisErrors => NoStageStarted /\ cmdPtr = "nil"

C13_Witness ==
    /\ Returned
    /\ err = "generation"
    /\ files = NumTemplates - 1
    /\ workspace = "removed"
    /\ NoStageStarted

\* C14: the interrupted flag is false until the listener exists, and no
\* step takes it from true back to false.
C14_FlagMonotonic ==
    /\ [](lpc = "none" => ~interrupted)
    /\ [][interrupted => interrupted']_vars

C14_Witness ==
    /\ Returned
    /\ interrupted
    /\ nints >= 2
    /\ started["compile"] = 1

\* C17: with no package found no workspace is ever created and no stage
\* process is ever started, and the run of a project whose go.mod was found
\* fails with the no-package error.
C17_NoPackage ==
    npkgs = 0 =>
        /\ workspace = "none"
        /\ NoStageStarted
        /\ Returned => err # "none" /\ (hasManifest => err = "no package")

C17_Witness ==
    /\ npkgs = 0
    /\ Returned
    /\ err = "no package"
    /\ workspace = "none"

\* C20: the listener never sends the termination request through a command
\* whose process has not been started, so the program never dies of it.
C20_SignalsStartedProcess ==
    ~crashed

\* C12: during and after a second call of RunE nothing of the first call is
\* left: its workspace is gone, its signal registration has been stopped so
\* that no SIGINT of the second call reaches its channel and its listener,
\* the second call starts with no workspace, an empty slot and a cleared
\* flag, and removes its own workspace.
C12_NothingLeft ==
    second =>
        /\ prev.workspace # "exists"
        /\ ~prev.notifying
        /\ prev.late = 0
        /\ pc = "findGoModule" =>
              workspace = "none" /\ cmdPtr = "nil" /\ ~interrupted
        /\ Returned => workspace # "exists"

\* ========================================================================
\* Discovery of the sub-packages (listAllSubPackages and its caller).
\*
\* A string is a sequence of one-character strings.  A project tree maps
\* the path of each directory, relative to the project root and given as
\* the sequence of its directory names, to the names of the files directly
\* in it.

MaxDirs == 2            \* directories below the project root

\* The characters that occur, in byte order.
Alphabet == <<"-", ".", "/", "_", "a", "d", "e", "g", "i", "l", "m", "n",
              "o", "p", "r", "s", "t", "x">>
Ord(c) == CHOOSE i \in 1..Len(Alphabet) : Alphabet[i] = c

ProjectRoot == <<"/", "p">>
PkgName == <<"x", "/", "m">>
NameA == <<"a">>
NameInternal == <<"i", "n", "t", "e", "r", "n", "a", "l">>
DirNames == {NameA, NameInternal}
FileGo == <<"m", ".", "g", "o">>
FileTest == <<"m", "_", "t", "e", "s", "t", ".", "g", "o">>
FileDoc == <<"n", ".", "m", "d">>
SuffixGo == <<".", "g", "o">>
SuffixTest == <<"_", "t", "e", "s", "t", ".", "g", "o">>
FileSets == {{}, {FileDoc}, {FileTest}, {FileGo}, {FileGo, FileTest}}

DirPaths == {<<n>> : n \in DirNames} \cup
            {<<n, m>> : n \in DirNames, m \in DirNames}
PrefixClosed(D) == \A d \in D : Len(d) > 1 => SubSeq(d, 1, Len(d) - 1) \in D
Shapes == {D \in SUBSET DirPaths : Cardinality(D) <= MaxDirs /\ PrefixClosed(D)}
Trees == UNION {[D \cup {<<>>} -> FileSets] : D \in Shapes}

\* Comparison of Go strings: byte-wise, a proper prefix is smaller.
Less(s, t) ==
    \E k \in 0..Len(s) :
        /\ k <= Len(t)
        /\ SubSeq(s, 1, k) = SubSeq(t, 1, k)
        /\ \/ k = Len(s) /\ k < Len(t)
           \/ k < Len(s) /\ k < Len(t) /\ Ord(s[k + 1]) < Ord(t[k + 1])

\* strings.HasSuffix
HasSuffix(s, suffix) ==
    /\ Len(s) >= Len(suffix)
    /\ SubSeq(s, Len(s) - Len(suffix) + 1, Len(s)) = suffix

\* path.Join(dir, name) of a clean directory path and a file name
Join(dir, name) == dir \o <<"/">> \o name

\* strings.Replace(s, old, new, 1): the first occurrence of old, if any
Replace1(s, old, new) ==
    LET hits == {i \in 1..(Len(s) + 1) :
                    /\ i + Len(old) - 1 <= Len(s)
                    /\ SubSeq(s, i, i + Len(old) - 1) = old}
    IN IF hits = {} THEN s
       ELSE LET i == CHOOSE h \in hits : \A g \in hits : h <= g
            IN SubSeq(s, 1, i - 1) \o new \o SubSeq(s, i + Len(old), Len(s))

RECURSIVE Insert(_, _)
Insert(sorted, x) ==
    IF sorted = <<>> THEN <<x>>
    ELSE IF Less(x, Head(sorted)) THEN <<x>> \o sorted
         ELSE <<Head(sorted)>> \o Insert(Tail(sorted), x)
RECURSIVE InsertAll(_, _)
InsertAll(sorted, rest) ==
    IF rest = <<>> THEN sorted
    ELSE InsertAll(Insert(sorted, Head(rest)), Tail(rest))

\* Mutant: the list is left in the order of the walk.
SortStrings_None(seq) == seq

\* sort.Strings: the elements in increasing order
SortStrings(seq) == InsertAll(<<>>, seq)

RECURSIVE SetToSeq(_)
SetToSeq(S) == IF S = {} THEN <<>>
               ELSE LET x == CHOOSE y \in S : TRUE
                    IN <<x>> \o SetToSeq(S \ {x})

\* The path of the directory rel of the tree in the file system.
RECURSIVE Abs(_)
Abs(rel) == IF rel = <<>> THEN ProjectRoot
            ELSE Join(Abs(SubSeq(rel, 1, Len(rel) - 1)), rel[Len(rel)])
RelOf(tree, p) == CHOOSE rel \in DOMAIN tree : Abs(rel) = p

\* os.ReadDir(p): the entries of the directory, sorted by file name.
ReadDir(tree, p) ==
    LET rel == RelOf(tree, p)
        dirs == {n \in DirNames : rel \o <<n>> \in DOMAIN tree}
    IN [names |-> SortStrings(SetToSeq(dirs \cup tree[rel])), dirs |-> dirs]

\* Mutant: files ending in _test.go count like the other .go files.
IsGoSource_WithTests(name) == HasSuffix(name, SuffixGo)

\* The test on a file entry: not a test file, and a .go file.
IsGoSource(name) == ~HasSuffix(name, SuffixTest) /\ HasSuffix(name, SuffixGo)

\* listAllSubPackages(projectRoot): the loop over the entries from entry i
\* on, then the append of projectRoot itself.  Version 1 skips the
\* directories named internal.
RECURSIVE listAllSubPackages(_, _, _)
RECURSIVE ListEntries(_, _, _, _, _, _, _)
ListEntries(v, tree, projectRoot, entries, i, pkgs, hasGoFile) ==
    IF i > Len(entries.names)
      THEN IF hasGoFile THEN Append(pkgs, projectRoot) ELSE pkgs
      ELSE LET name == entries.names[i]
           IN IF name \in entries.dirs
                THEN IF v = 1 /\ name = NameInternal
                       THEN ListEntries(v, tree, projectRoot, entries, i + 1,
                                        pkgs, hasGoFile)
                       ELSE ListEntries(v, tree, projectRoot, entries, i + 1,
                              pkgs \o listAllSubPackages(v, tree,
                                                 Join(projectRoot, name)),
                              hasGoFile)
                ELSE ListEntries(v, tree, projectRoot, entries, i + 1, pkgs,
                                 hasGoFile \/ IsGoSource(name))
listAllSubPackages(v, tree, projectRoot) ==
    ListEntries(v, tree, projectRoot, ReadDir(tree, projectRoot), 1, <<>>, FALSE)

\* pkgs := listAllSubPackages(projectRoot); every pkgs[i] gets its first
\* projectRoot replaced by pkgName; sort.Strings(pkgs)
DiscoverPackages(v, tree) ==
    LET pkgs == listAllSubPackages(v, tree, ProjectRoot)
    IN SortStrings([i \in 1..Len(pkgs) |->
                       Replace1(pkgs[i], ProjectRoot, PkgName)])

DiscoverInit ==
    /\ PipelineInit
    /\ hasManifest /\ npkgs = 0 /\ serverType = "httpjson"
    /\ fn \in {[op |-> "discover", tree |-> t, done |-> FALSE, pkgs |-> <<>>] :
                 t \in Trees}

Discover ==
    /\ fn.op = "discover" /\ ~fn.done
    /\ fn' = [fn EXCEPT !.done = TRUE, !.pkgs = DiscoverPackages(variant, fn.tree)]
    /\ UNCHANGED pipelineVars

DiscoverSpec == DiscoverInit /\ [][Discover]_vars

\* ---- claims about the discovery --------------------------------------

\* The import path of the directory rel: the module identity followed by
\* the directory names.
RECURSIVE ImportPath(_)
ImportPath(rel) == IF rel = <<>> THEN PkgName
                   ELSE Join(ImportPath(SubSeq(rel, 1, Len(rel) - 1)), rel[Len(rel)])
HasOwnSource(names) ==
    \E f \in names : HasSuffix(f, SuffixGo) /\ ~HasSuffix(f, SuffixTest)
UnderInternal(rel) == \E i \in 1..Len(rel) : rel[i] = NameInternal
\* The directories the version leaves out whatever they contain.
Skipped(rel) == variant = 1 /\ UnderInternal(rel)
Qualifying == {rel \in DOMAIN fn.tree : HasOwnSource(fn.tree[rel]) /\ ~Skipped(rel)}
Discovered == fn.op = "discover" /\ fn.done
Listed == {fn.pkgs[i] : i \in 1..Len(fn.pkgs)}

\* C15: for a project tree with N qualifying directories the discovery
\* yields exactly N entries, in strictly increasing order (sorted, no
\* duplicate), each the import path of a directory of the tree: the
\* module identity in place of the project root, never a file-system path.
C15_SortedImportPaths ==
    Discovered =>
        /\ Len(fn.pkgs) = Cardinality(Qualifying)
        /\ \A i \in 1..Len(fn.pkgs) : \A j \in 1..Len(fn.pkgs) :
               i < j => Less(fn.pkgs[i], fn.pkgs[j])
        /\ \A i \in 1..Len(fn.pkgs) :
               /\ \E rel \in DOMAIN fn.tree : fn.pkgs[i] = ImportPath(rel)
               /\ SubSeq(fn.pkgs[i], 1, Len(ProjectRoot)) # ProjectRoot

\* A tree whose root and a sub-directory both qualify: the walk lists the
\* sub-directory first, the result has the root first.
C15_Witness ==
    /\ Discovered
    /\ Len(fn.pkgs) = 2
    /\ fn.pkgs[1] = PkgName
    /\ fn.pkgs[2] = Join(PkgName, NameA)

\* C16 as stated: a directory is listed exactly when it has a .go file of
\* its own that is not a test file, wherever it sits in the tree.
C16_ByOwnFilesAnywhere ==
    Discovered =>
        \A rel \in DOMAIN fn.tree :
            ImportPath(rel) \in Listed <=> HasOwnSource(fn.tree[rel])

\* C16 amended: a directory the walk reaches is listed exactly when it has
\* a .go file of its own that is not a test file (test files alone do not
\* count, test files beside other .go files do not exclude); version 1
\* does not reach the directories named internal nor what is below them.
C16_ByOwnFilesWhereVisited ==
    Discovered =>
        \A rel \in DOMAIN fn.tree :
            /\ Skipped(rel) => ImportPath(rel) \notin Listed
            /\ ~Skipped(rel) =>
                 /\ fn.tree[rel] = {FileTest} => ImportPath(rel) \notin Listed
                 /\ {FileGo, FileTest} \subseteq fn.tree[rel] =>
                        ImportPath(rel) \in Listed
                 /\ ImportPath(rel) \in Listed <=> HasOwnSource(fn.tree[rel])

\* One directory with test files only, one with both kinds, below a root
\* without files: only the second is listed.
C16_Witness ==
    /\ Discovered
    /\ <<NameA>> \in DOMAIN fn.tree /\ fn.tree[<<NameA>>] = {FileTest}
    /\ <<NameA, NameA>> \in DOMAIN fn.tree
    /\ fn.tree[<<NameA, NameA>>] = {FileGo, FileTest}
    /\ Listed = {ImportPath(<<NameA, NameA>>)}

\* ========================================================================
\* The extra build flags (parseGoBuildFlags and the compile stage's
\* argument list).  An argument is a string, a sequence of characters.

MaxArgs == 4            \* length of the caller's argument list

ArgDashDash == <<"-", "-">>
ArgO == <<"-", "o">>
ArgOEquals == <<"-", "o", "=", "x">>
ArgDashDashO == <<"-", "-", "o">>
ArgV == <<"-", "v">>
ArgX == <<"x">>
ArgBuild == <<"b", "u", "i", "l", "d">>
shanaBuildServiceBinaryName ==
    <<"s", "h", "a", "n", "a", "-", "b", "u", "i", "l", "d", "-",
      "s", "e", "r", "v", "i", "c", "e">>
Arguments == {ArgDashDash, ArgO, ArgOEquals, ArgDashDashO, ArgV, ArgX}
ArgLists == UNION {[1..n -> Arguments] : n \in 0..MaxArgs}

\* The first loop: idx (counted from 0) after the search for "--".
RECURSIVE SkipToDashDash(_, _)
SkipToDashDash(buildFlags, idx) ==
    IF idx < Len(buildFlags)
      THEN IF buildFlags[idx + 1] = ArgDashDash THEN idx + 1
           ELSE SkipToDashDash(buildFlags, idx + 1)
      ELSE idx

\* Mutant: the argument after -o is kept.
RECURSIVE FilterO_KeepValue(_, _, _)
FilterO_KeepValue(buildFlags, idx, res) ==
    IF idx < Len(buildFlags)
      THEN IF buildFlags[idx + 1] = ArgO
             THEN FilterO_KeepValue(buildFlags, idx + 1, res)
             ELSE FilterO_KeepValue(buildFlags, idx + 1,
                                    Append(res, buildFlags[idx + 1]))
      ELSE res

\* The second loop: an argument equal to "-o" is dropped with the argument
\* after it, every other argument is appended.
RECURSIVE FilterO(_, _, _)
FilterO(buildFlags, idx, res) ==
    IF idx < Len(buildFlags)
      THEN IF buildFlags[idx + 1] = ArgO
             THEN FilterO(buildFlags, idx + 2, res)
             ELSE FilterO(buildFlags, idx + 1,
                          Append(res, buildFlags[idx + 1]))
      ELSE res

parseGoBuildFlags(args) ==
    LET idx == SkipToDashDash(args, 0)
    IN IF idx >= Len(args) THEN <<>>
       ELSE FilterO(SubSeq(args, idx + 1, Len(args)), 0, <<>>)

\* goBuildArgs of the compile stage
GoBuildArgs(args) ==
    <<ArgBuild, ArgO, shanaBuildServiceBinaryName>> \o parseGoBuildFlags(args)

FlagsInit ==
    /\ PipelineInit
    /\ hasManifest /\ npkgs = 0 /\ serverType = "httpjson"
    /\ fn \in {[op |-> "flags", args |-> a, done |-> FALSE, goBuildArgs |-> <<>>] :
                 a \in ArgLists}

BuildFlags ==
    /\ fn.op = "flags" /\ ~fn.done
    /\ fn' = [fn EXCEPT !.done = TRUE, !.goBuildArgs = GoBuildArgs(fn.args)]
    /\ UNCHANGED pipelineVars

FlagsSpec == FlagsInit /\ [][BuildFlags]_vars

\* ---- claim about the build flags --------------------------------------

\* The arguments after the first "--".
ExtraFlags(args) ==
    LET at == {i \in 1..Len(args) : args[i] = ArgDashDash}
    IN IF at = {} THEN <<>>
       ELSE SubSeq(args, (CHOOSE i \in at : \A j \in at : i <= j) + 1, Len(args))

\* The flags without every "-o" and the argument that follows it.
RECURSIVE WithoutOutputName(_)
WithoutOutputName(flags) ==
    IF flags = <<>> THEN <<>>
    ELSE IF Head(flags) = ArgO
           THEN IF Len(flags) >= 2 THEN WithoutOutputName(Tail(Tail(flags)))
                ELSE <<>>
           ELSE <<Head(flags)>> \o WithoutOutputName(Tail(flags))

FlagsDone == fn.op = "flags" /\ fn.done
PassedOn == SubSeq(fn.goBuildArgs, 4, Len(fn.goBuildArgs))
BeforeDashDash ==
    LET at == {i \in 1..Len(fn.args) : fn.args[i] = ArgDashDash}
    IN IF at = {} THEN Len(fn.args)
       ELSE (CHOOSE i \in at : \A j \in at : i <= j) - 1

shanaCorePackage ==
    <<"g", "i", "t", "h", "u", "b", ".", "c", "o", "m", "/", "g", "o", "-",
      "s", "h", "a", "n", "a", "/", "c", "o", "r", "e">>
OtherPackage == <<"o">>
ProjectRoots == {<<"/", "p">>, <<"/", "p", "/", "q">>}
NoVersion == <<>>
OldVersions == {NoVersion, <<"v", "1">>}
LocalPaths == {<<".", ".", "/", "c">>, <<".", "/", "c">>, <<"c">>,
               <<"c", "/", ".", ".", "/", "d">>,
               <<".", ".", "/", ".", ".", "/", "c">>}
\* New of a replace directive: a local directory or a module at a version
NewSides == {[Path |-> p, Version |-> NoVersion] : p \in LocalPaths} \cup
            {[Path |-> <<"f", "/", "c">>, Version |-> <<"v", "2">>]}
Replaces == {[Old |-> [Path |-> o, Version |-> ov], New |-> n] :
               o \in {shanaCorePackage, OtherPackage}, ov \in OldVersions,
               n \in NewSides}

\* The elements of a path between its slashes, empty ones left out.
RECURSIVE Elements(_, _, _)
Elements(s, i, cur) ==
    IF i > Len(s) THEN (IF cur = <<>> THEN <<>> ELSE <<cur>>)
    ELSE IF s[i] = "/"
           THEN (IF cur = <<>> THEN <<>> ELSE <<cur>>) \o Elements(s, i + 1, <<>>)
           ELSE Elements(s, i + 1, Append(cur, s[i]))

\* path.Clean of a rooted path, on its elements: "." is dropped, ".."
\* removes the element before it, and is dropped at the root.
RECURSIVE CleanElements(_, _)
CleanElements(elems, kept) ==
    IF elems = <<>> THEN kept
    ELSE IF Head(elems) = <<".">> THEN CleanElements(Tail(elems), kept)
    ELSE IF Head(elems) = <<".", ".">>
           THEN CleanElements(Tail(elems),
                    IF kept = <<>> THEN kept ELSE SubSeq(kept, 1, Len(kept) - 1))
           ELSE CleanElements(Tail(elems), Append(kept, Head(elems)))
RECURSIVE Rooted(_)
Rooted(elems) == IF elems = <<>> THEN <<>>
                 ELSE <<"/">> \o Head(elems) \o Rooted(Tail(elems))
Clean(p) ==
    LET kept == CleanElements(Elements(p, 1, <<>>), <<>>)
    IN IF kept = <<>> THEN <<"/">> ELSE Rooted(kept)

\* if replace.New.Version == "" {
\*     replace.New.Path = path.Clean(path.Join(projectRoot, replace.New.Path)) }
NormalizeReplace(root, rep) ==
    IF rep.New.Version = NoVersion
      THEN [rep EXCEPT !.New.Path = Clean(Clean(root \o <<"/">> \o rep.New.Path))]
      ELSE rep

\* The replace line of the go.mod template: text, and actions {{.X.Y}};
\* an action written {{- .X.Y}} has trimLeft.  Version 1 writes one such
\* line per entry inside replace ( ... ), version 2 a single directive.
Text(chars) == [kind |-> "text", text |-> chars]
Field(side, name, trimLeft) ==
    [kind |-> "field", side |-> side, name |-> name, trimLeft |-> trimLeft]
ReplaceLine(v) ==
    <<Text(IF v = 1 THEN <<"\t">>
           ELSE <<"r", "e", "p", "l", "a", "c", "e", " ">>),
      Field("Old", "Path", FALSE), Text(<<" ">>), Field("Old", "Version", TRUE),
      Text(<<" ", "=", ">", " ">>),
      Field("New", "Path", FALSE), Text(<<" ">>), Field("New", "Version", TRUE),
      Text(<<"\n">>)>>

WhiteSpace == {" ", "\t", "\n"}
RECURSIVE TrimRight(_)
TrimRight(chars) ==
    IF chars # <<>> /\ chars[Len(chars)] \in WhiteSpace
      THEN TrimRight(SubSeq(chars, 1, Len(chars) - 1))
      ELSE chars

\* template.Parse: the text before an action written {{- loses its
\* trailing white space.
ParseTemplate(items) ==
    [i \in 1..Len(items) |->
        IF /\ items[i].kind = "text"
           /\ i < Len(items)
           /\ items[i + 1].kind = "field"
           /\ items[i + 1].trimLeft
          THEN Text(TrimRight(items[i].text))
          ELSE items[i]]

\* Template.Execute on one entry: the texts and the values of the fields,
\* one after the other.
RECURSIVE Execute(_, _)
Execute(items, rep) ==
    IF items = <<>> THEN <<>>
    ELSE (IF Head(items).kind = "text" THEN Head(items).text
          ELSE rep[Head(items).side][Head(items).name])
         \o Execute(Tail(items), rep)

SynthesizeInit ==
    /\ PipelineInit
    /\ hasManifest /\ npkgs = 0 /\ serverType = "httpjson"
    /\ fn \in {[op |-> "manifest", root |-> r, replace |-> rep, done |-> FALSE,
                carried |-> FALSE, line |-> <<>>] :
                 r \in ProjectRoots, rep \in Replaces}

\* findGoModule keeps the replace whose Old.Path is the core package; its
\* New.Path is normalised (in findGoModule in version 1, in RunE in
\* version 2); createFile executes the go.mod template on it.
Synthesize ==
    /\ fn.op = "manifest" /\ ~fn.done
    /\ LET carried == fn.replace.Old.Path = shanaCorePackage
       IN fn' = [fn EXCEPT
                   !.done = TRUE,
                   !.carried = carried,
                   !.line = IF carried
                              THEN Execute(ParseTemplate(ReplaceLine(variant)),
                                           NormalizeReplace(fn.root, fn.replace))
                              ELSE <<>>]
    /\ UNCHANGED pipelineVars

SynthesizeSpec == SynthesizeInit /\ [][Synthesize]_vars

\* ---- claim about the override path ------------------------------------

\* The white-space separated words of a line, as the go command reads a
\* directive.
RECURSIVE Words(_, _, _)
Words(s, i, cur) ==
    IF i > Len(s) THEN (IF cur = <<>> THEN <<>> ELSE <<cur>>)
    ELSE IF s[i] \in WhiteSpace
           THEN (IF cur = <<>> THEN <<>> ELSE <<cur>>) \o Words(s, i + 1, <<>>)
           ELSE Words(s, i + 1, Append(cur, s[i]))
Arrow == <<"=", ">">>
WrittenWords == Words(fn.line, 1, <<>>)
\* The word after => in the written line: the path of the override.
WrittenPath ==
    LET at == CHOOSE i \in 1..Len(WrittenWords) : WrittenWords[i] = Arrow
    IN IF at < Len(WrittenWords) THEN WrittenWords[at + 1] ELSE <<>>
Carried == fn.op = "manifest" /\ fn.done /\ fn.carried
IsNormal(p) ==
    /\ p # <<>> /\ p[1] = "/"
    /\ \A e \in {Elements(p, 1, <<>>)[i] : i \in 1..Len(Elements(p, 1, <<>>))} :
           e # <<".">> /\ e # <<".", ".">>
    /\ Rooted(Elements(p, 1, <<>>)) = p

\* C19: the written line of a core override without version has, after
\* =>, the normal absolute form of project root / declared path; the line
\* of a core override with a version has the declared path after =>.
C19_OverridePath ==
    Carried =>
        /\ fn.replace.New.Version = NoVersion =>
              /\ WrittenPath = Clean(fn.root \o <<"/">> \o fn.replace.New.Path)
              /\ IsNormal(WrittenPath)
        /\ fn.replace.New.Version # NoVersion =>
              WrittenPath = fn.replace.New.Path

\* ========================================================================
\* Termination of the pipeline.

\* Every stage process that runs exits at some time, and every runnable
\* goroutine gets to run.
ExitFairSpec == FairSpec /\ \A s \in StageSet : WF_vars(ProcExit(s))

\* C21: when every stage process exits at some time, RunE returns at some
\* time, whatever interrupts arrive, and no workspace directory is left.
C21_ReturnsAndRemoves == <>(Returned /\ workspace # "exists")

\* ========================================================================
\* The create command up to the package name of the new project
\* (createCmd.RunE, pkgRegexp, normalizeProjectName).

MaxNameLen == 4         \* length of the module name given to create

Lower == {"a", "b", "c", "d", "e", "f", "g", "h", "i", "j", "k", "l", "m",
          "n", "o", "p", "q", "r", "s", "t", "u", "v", "w", "x", "y", "z"}
Upper == {"A", "B", "C", "D", "E", "F", "G", "H", "I", "J", "K", "L", "M",
          "N", "O", "P", "Q", "R", "S", "T", "U", "V", "W", "X", "Y", "Z"}
Digits == {"0", "1", "2", "3", "4", "5", "6", "7", "8", "9"}
\* [a-zA-Z0-9_\-]
WordChars == Lower \cup Upper \cup Digits \cup {"_", "-"}

\* The characters module names are made of here.
NameChars == {"g", "o", "a", "1", "_", "-", ".", "/"}
\* The module names of at most n characters.
ModuleNames(n) == UNION {[1..k -> NameChars] : k \in 1..n}
\* args[1], when given
Directories == {<<"g", "o", "-">>, <<"1", "a">>, <<"g", "o", "-", "a", "_", "1">>, <<>>}
CreateArgs(n) == {<<m>> : m \in ModuleNames(n)} \cup
                 {<<m, d>> : m \in ModuleNames(n), d \in Directories}

\* The pieces of s between the occurrences of sep, empty pieces kept.
RECURSIVE Pieces(_, _, _, _)
Pieces(s, sep, i, cur) ==
    IF i > Len(s) THEN <<cur>>
    ELSE IF s[i] = sep THEN <<cur>> \o Pieces(s, sep, i + 1, <<>>)
         ELSE Pieces(s, sep, i + 1, Append(cur, s[i]))
AllIn(s, chars) == \A i \in 1..Len(s) : s[i] \in chars

\* pkgRegexp.MatchString:
\* ^[a-zA-Z0-9_\-]+(\.[a-zA-Z0-9_\-]+)*(\/[a-zA-Z0-9_\-\.]+)*$
pkgRegexp(s) ==
    LET parts == Pieces(s, "/", 1, <<>>)
        labels == Pieces(parts[1], ".", 1, <<>>)
    IN /\ \A i \in 1..Len(labels) :
              labels[i] # <<>> /\ AllIn(labels[i], WordChars)
       /\ \A i \in 2..Len(parts) :
              parts[i] # <<>> /\ AllIn(parts[i], WordChars \cup {"."})

\* path.Base
Base(p) ==
    IF p = <<>> THEN <<".">>
    ELSE LET elems == Elements(p, 1, <<>>)
         IN IF elems = <<>> THEN <<"/">> ELSE elems[Len(elems)]

\* strings.TrimPrefix
TrimPrefix(s, prefix) ==
    IF Len(s) >= Len(prefix) /\ SubSeq(s, 1, Len(prefix)) = prefix
      THEN SubSeq(s, Len(prefix) + 1, Len(s))
      ELSE s

\* strings.Map with a function that keeps the letters, the digits and the
\* underscore and returns -1 for the rest.
KeepWordRunes(s) ==
    SelectSeq(s, LAMBDA r : r \in Lower \cup Upper \cup Digits \cup {"_"})

normalizeProjectName(projectName) ==
    KeepWordRunes(TrimPrefix(projectName, <<"g", "o", "-">>))

CreateInit ==
    /\ PipelineInit
    /\ variant = 1 /\ hasManifest /\ npkgs = 0 /\ serverType = "httpjson"
    /\ fn \in {[op |-> "create", args |-> a, done |-> FALSE, error |-> "none",
                projectName |-> <<>>, project |-> <<>>] :
                 a \in CreateArgs(MaxNameLen)}

\* createCmd.RunE down to the Project of the template context.
Create ==
    /\ fn.op = "create" /\ ~fn.done
    /\ LET pkgName == fn.args[1]
           projectName == IF Len(fn.args) > 1 THEN fn.args[2] ELSE Base(pkgName)
       IN fn' = IF ~pkgRegexp(pkgName)
                  THEN [fn EXCEPT !.done = TRUE, !.error = "invalid module name"]
                ELSE IF projectName = <<>>
                  THEN [fn EXCEPT !.done = TRUE, !.error = "mkdir"]
                ELSE [fn EXCEPT !.done = TRUE,
                                !.projectName = projectName,
                                !.project = normalizeProjectName(projectName)]
    /\ UNCHANGED pipelineVars

CreateSpec == CreateInit /\ [][Create]_vars

\* ---- claim about the package name --------------------------------------

Created == fn.op = "create" /\ fn.done /\ fn.error = "none"

\* C22: the package name made from the project name is not empty, has
\* only letters, digits and underscores, and does not start with a digit.
C22_ValidPackageName ==
    Created =>
        /\ fn.project # <<>>
        /\ AllIn(fn.project, Lower \cup Upper \cup Digits \cup {"_"})
        /\ fn.project[1] \notin Digits
====
